---- MODULE Spec2Model ----
(***************************************************************************)
(* Model of scripts/update-appcast.py: the Sparkle appcast feed editor.    *)
(*                                                                         *)
(* An XML element is a record [tag, attrs, text, children]; attrs is a     *)
(* sequence of <<name, value>> pairs in document order and children a      *)
(* sequence of elements.  Tags and attribute names are atomic strings.     *)
(* Attribute values and text are sequences of one-character strings, so    *)
(* that what serialization and parsing do to them can be computed.         *)
(* Whitespace between elements (ElementTree's indentation text and tails)  *)
(* is not part of a tree: prettify_xml re-indents and drops it.            *)
(***************************************************************************)
EXTENDS Integers, Sequences, FiniteSets, TLC

\* ------------------------------------------------------------------------
\* Bounds of the model
\* ------------------------------------------------------------------------
\* greatest number of invocations in one behaviour
MaxCalls == 3
\* greatest number of invocations on a feed that was there before
MaxEdits == 2
\* greatest small retention limit tried (besides the default, 10)
MaxLimit == 2
\* greatest magnitude of the negative retention limits tried on a feed
\* that was there before (--max-items takes any int)
MaxNegative == 2

\* ------------------------------------------------------------------------
\* Characters and strings
\* ------------------------------------------------------------------------
\* a character XML 1.0 forbids (U+0008); the command line can carry it
CtrlChar == "<U+0008>"
\* str.strip() removes these
WhitespaceChars == {" ", "\t", "\n", "\r"}
\* the value absent optional text takes (None and "" are both falsy)
NoText == <<>>

Min(a, b) == IF a < b THEN a ELSE b
Max(a, b) == IF a > b THEN a ELSE b

\* s without its element at index i
RemoveAt(s, i) == [j \in 1..(Len(s) - 1) |-> IF j < i THEN s[j] ELSE s[j + 1]]

\* s with x inserted so that it becomes the element at index pos + 1
\* (list.insert(pos, x) with a 0-based pos in 0..len)
InsertAt(s, pos, x) ==
  [j \in 1..(Len(s) + 1) |->
     IF j <= pos THEN s[j] ELSE IF j = pos + 1 THEN x ELSE s[j - 1]]

\* str(n) for an int
RECURSIVE NatToStr(_)
NatToStr(n) ==
  LET d == <<"0", "1", "2", "3", "4", "5", "6", "7", "8", "9">>[(n % 10) + 1]
  IN  IF n < 10 THEN <<d>> ELSE NatToStr(n \div 10) \o <<d>>
IntToStr(n) == IF n < 0 THEN <<"-">> \o NatToStr(0 - n) ELSE NatToStr(n)

\* s.startswith(p)
StartsWith(s, p) == Len(s) >= Len(p) /\ SubSeq(s, 1, Len(p)) = p

\* ------------------------------------------------------------------------
\* Elements
\* ------------------------------------------------------------------------
Element(tag, attrs, text, children) ==
  [tag |-> tag, attrs |-> attrs, text |-> text, children |-> children]

\* ET.SubElement(parent, tag) followed by .text = text
TextElement(tag, text) == Element(tag, <<>>, text, <<>>)

\* elem.get(name) is not None
HasAttr(elem, name) == \E i \in DOMAIN elem.attrs : elem.attrs[i][1] = name

\* elem.get(name), for an element that has the attribute
Get(elem, name) ==
  LET i == CHOOSE i \in DOMAIN elem.attrs :
             /\ elem.attrs[i][1] = name
             /\ \A j \in 1..(i - 1) : elem.attrs[j][1] # name
  IN  elem.attrs[i][2]

\* the indices, from i on, of the elements of children with that tag
RECURSIVE IndicesOfTag(_, _, _)
IndicesOfTag(children, tag, i) ==
  IF i > Len(children) THEN <<>>
  ELSE (IF children[i].tag = tag THEN <<i>> ELSE <<>>)
       \o IndicesOfTag(children, tag, i + 1)

\* elem.findall(tag): the indices of the direct children with that tag
FindAll(elem, tag) == IndicesOfTag(elem.children, tag, 1)

\* Find, were it to fall back on the first child when no child has the tag
Find_FirstChild(elem, tag) ==
  LET found == FindAll(elem, tag)
  IN  IF found # <<>> THEN found[1]
      ELSE IF elem.children # <<>> THEN 1 ELSE 0

\* elem.find(tag): the index of the first direct child with that tag, 0 for None
Find(elem, tag) ==
  LET found == FindAll(elem, tag) IN IF found = <<>> THEN 0 ELSE found[1]

SPARKLE_VERSION == "sparkle:version"
SPARKLE_SHORT_VERSION == "sparkle:shortVersionString"
SPARKLE_ED_SIGNATURE == "sparkle:edSignature"

\* ------------------------------------------------------------------------
\* create_appcast_template and create_item
\* ------------------------------------------------------------------------
TemplateTitle == <<"O", "r", "b", "i", "t", " ", "U", "p", "d", "a", "t", "e", "s">>
TemplateLink == <<"h", "t", "t", "p", "s", ":", "/", "/", "g", "i", "t", "h", "u", "b", ".", "c", "o", "m", "/", "t", "h", "i", "r", "t", "e", "e", "n", "3", "7", "/", "O", "r", "b", "i", "t">>
TemplateDescription == <<"M", "o", "s", "t", " ", "r", "e", "c", "e", "n", "t", " ", "u", "p", "d", "a", "t", "e", "s", " ", "t", "o", " ", "O", "r", "b", "i", "t">>
TemplateLanguage == <<"e", "n">>

\* the document that create_appcast_template's text parses to
create_appcast_template ==
  Element("rss", << <<"version", <<"2", ".", "0">> >> >>, NoText,
    << Element("channel", <<>>, NoText,
         << TextElement("title", TemplateTitle),
            TextElement("link", TemplateLink),
            TextElement("description", TemplateDescription),
            TextElement("language", TemplateLanguage) >>) >>)

VersionPrefix == <<"V", "e", "r", "s", "i", "o", "n", " ">>
HttpPrefix == <<"h", "t", "t", "p">>
OctetStream == <<"a", "p", "p", "l", "i", "c", "a", "t", "i", "o", "n", "/", "o", "c", "t", "e", "t", "-", "s", "t", "r", "e", "a", "m">>
DefaultMinSystemVersion == <<"1", "4", ".", "0">>

\* datetime.now(timezone.utc).strftime(...) at instant now.  The RFC 2822
\* text has letters, digits, spaces, commas, colons and a sign only; it is
\* abbreviated to a tag and the instant's decimal digits.
PubDateText(now) == <<"T">> \o IntToStr(now)

\* the optional release-notes child: a link, inline text, or nothing
ReleaseNotesElements(release_notes) ==
  IF release_notes = NoText THEN <<>>
  ELSE IF StartsWith(release_notes, HttpPrefix)
       THEN << TextElement("sparkle:releaseNotesLink", release_notes) >>
       ELSE << TextElement("description", release_notes) >>

EnclosureElement(version, signature, url, length) ==
  Element("enclosure",
          << <<"url", url>>,
             <<"length", IntToStr(length)>>,
             <<"type", OctetStream>>,
             <<SPARKLE_VERSION, version>>,
             <<SPARKLE_SHORT_VERSION, version>>,
             <<SPARKLE_ED_SIGNATURE, signature>> >>,
          NoText, <<>>)

create_item(version, signature, url, length, min_system_version, release_notes, now) ==
  Element("item", <<>>, NoText,
          << TextElement("title", VersionPrefix \o version),
             TextElement("pubDate", PubDateText(now)) >>
          \o ReleaseNotesElements(release_notes)
          \o << EnclosureElement(version, signature, url, length),
                TextElement("sparkle:minimumSystemVersion", min_system_version) >>)

\* ------------------------------------------------------------------------
\* Serialization (prettify_xml) and parsing (ET.parse)
\* ------------------------------------------------------------------------
\* XML line-end normalization of literal characters: CR LF and CR become LF
RECURSIVE LineEndsFrom(_, _)
LineEndsFrom(s, i) ==
  IF i > Len(s) THEN <<>>
  ELSE IF s[i] = "\r"
       THEN <<"\n">> \o LineEndsFrom(s, IF i < Len(s) /\ s[i + 1] = "\n"
                                        THEN i + 2 ELSE i + 1)
       ELSE <<s[i]>> \o LineEndsFrom(s, i + 1)
LineEnds(s) ==
  IF \A i \in DOMAIN s : s[i] # "\r" THEN s ELSE LineEndsFrom(s, 1)

\* s.split("\n")
RECURSIVE SplitLines(_)
SplitLines(s) ==
  IF \A i \in DOMAIN s : s[i] # "\n" THEN <<s>>
  ELSE LET p == CHOOSE i \in DOMAIN s :
                  s[i] = "\n" /\ \A j \in 1..(i - 1) : s[j] # "\n"
       IN  <<SubSeq(s, 1, p - 1)>> \o SplitLines(SubSeq(s, p + 1, Len(s)))

\* "\n".join(lines)
RECURSIVE JoinLines(_)
JoinLines(lines) ==
  IF Len(lines) = 1 THEN lines[1]
  ELSE lines[1] \o <<"\n">> \o JoinLines(Tail(lines))

\* not line.strip()
IsBlank(line) == \A i \in DOMAIN line : line[i] \in WhitespaceChars

\* What line 59 (dropping the whitespace-only lines of the whole output)
\* does to a value that spans lines: its first and last line share their
\* output line with markup and stay, its other blank lines go.
DropBlankLines(s) ==
  IF \A i \in DOMAIN s : s[i] # "\n" THEN s ELSE
  LET lines == SplitLines(s)
      n == Len(lines)
      Kept(i) == i = 1 \/ i = n \/ ~IsBlank(lines[i])
      RECURSIVE Keep(_)
      Keep(i) == IF i > n THEN <<>>
                 ELSE (IF Kept(i) THEN <<lines[i]>> ELSE <<>>) \o Keep(i + 1)
  IN  JoinLines(Keep(1))

\* Text of a leaf element as prettify_xml writes it: minidom.parseString
\* normalizes the line ends, toprettyxml writes the text inline.
WriteText(s) == DropBlankLines(LineEnds(s))

\* An attribute value as prettify_xml writes it.  ET.tostring writes CR, LF
\* and TAB as character references, minidom.parseString decodes them, and
\* toprettyxml writes them back as character references when the runtime's
\* minidom escapes them (escapes = TRUE) and literally when it does not.
CharRef(c) == IF c = "\t" THEN "&#9;" ELSE IF c = "\n" THEN "&#10;"
              ELSE IF c = "\r" THEN "&#13;" ELSE c
WriteAttr(s, escapes) ==
  IF escapes THEN [i \in DOMAIN s |-> CharRef(s[i])]
  ELSE DropBlankLines(s)

\* An attribute value as the XML parser reads it: line ends and then
\* literal whitespace are normalized to spaces, references are decoded.
Decode(c) == IF c = "&#9;" THEN "\t" ELSE IF c = "&#10;" THEN "\n"
             ELSE IF c = "&#13;" THEN "\r"
             ELSE IF c \in {"\t", "\n", "\r"} THEN " " ELSE c
ReadAttr(w) == LET n == LineEnds(w) IN [i \in DOMAIN n |-> Decode(n[i])]

\* Text as the XML parser reads it
ReadText(w) == LineEnds(w)

LegalString(s) == \A i \in DOMAIN s : s[i] # CtrlChar

\* the document has no character that XML forbids
RECURSIVE WellFormed(_)
WellFormed(elem) ==
  /\ LegalString(elem.text)
  /\ \A i \in DOMAIN elem.attrs : LegalString(elem.attrs[i][2])
  /\ \A i \in DOMAIN elem.children : WellFormed(elem.children[i])

RECURSIVE WriteElement(_, _)
WriteElement(elem, escapes) ==
  Element(elem.tag,
          [i \in DOMAIN elem.attrs |->
             <<elem.attrs[i][1], WriteAttr(elem.attrs[i][2], escapes)>>],
          IF elem.children = <<>> THEN WriteText(elem.text) ELSE NoText,
          [i \in DOMAIN elem.children |-> WriteElement(elem.children[i], escapes)])

RECURSIVE ReadElement(_)
ReadElement(elem) ==
  Element(elem.tag,
          [i \in DOMAIN elem.attrs |->
             <<elem.attrs[i][1], ReadAttr(elem.attrs[i][2])>>],
          ReadText(elem.text),
          [i \in DOMAIN elem.children |-> ReadElement(elem.children[i])])

\* prettify_xml(root): ok is FALSE when minidom.parseString raises
\* ExpatError, otherwise text is the document written
prettify_xml(root, escapes) ==
  IF WellFormed(root)
  THEN [ok |-> TRUE, text |-> WriteElement(root, escapes)]
  ELSE [ok |-> FALSE, text |-> root]

\* The feed file: absent, a well-formed document ("xml", with the document
\* as written), or text that is not well-formed XML: "empty" (no byte),
\* "partial" (a proper prefix of a document), "garbage" (anything else).
NoRoot == Element("", <<>>, NoText, <<>>)
AbsentFile == [kind |-> "absent", text |-> NoRoot]
EmptyFile == [kind |-> "empty", text |-> NoRoot]
PartialFile == [kind |-> "partial", text |-> NoRoot]
GarbageFile == [kind |-> "garbage", text |-> NoRoot]
XmlFile(text) == [kind |-> "xml", text |-> text]

\* parse_appcast(appcast_path): ok is FALSE when ET.parse raises ParseError
parse_appcast(f) ==
  IF f.kind = "absent" THEN [ok |-> TRUE, root |-> create_appcast_template]
  ELSE IF f.kind = "xml" THEN [ok |-> TRUE, root |-> ReadElement(f.text)]
  ELSE [ok |-> FALSE, root |-> NoRoot]

\* ------------------------------------------------------------------------
\* update_appcast
\* ------------------------------------------------------------------------
\* the item's first enclosure carries sparkle:version = version
IsExisting(item, version) ==
  LET e == Find(item, "enclosure")
  IN  /\ e # 0
      /\ HasAttr(item.children[e], SPARKLE_VERSION)
      /\ Get(item.children[e], SPARKLE_VERSION) = version

\* the dedup loop: the index of the first item for the version, 0 if none
ExistingIndex(children, version) ==
  LET items == IndicesOfTag(children, "item", 1)
      hits == {k \in DOMAIN items : IsExisting(children[items[k]], version)}
  IN  IF hits = {} THEN 0
      ELSE items[CHOOSE k \in hits : \A h \in hits : k <= h]

\* RemoveExisting, were the dedup loop to leave the old entry in place
RemoveExisting_Keep(children, version) == children

\* the channel's children after the dedup loop
RemoveExisting(children, version) ==
  LET i == ExistingIndex(children, version)
  IN  IF i = 0 THEN children ELSE RemoveAt(children, i)

\* InsertPos, were the new item appended behind the last child
InsertPos_Append(children) == Len(children)

\* insert_pos: the 0-based index of the first item, or the number of
\* children when there is no item
InsertPos(children) ==
  LET items == IndicesOfTag(children, "item", 1)
  IN  IF items = <<>> THEN Len(children) ELSE items[1] - 1

\* SliceStart, were the slice taken one item late (items[max_items + 1:])
SliceStart_OffByOne(n, max_items) ==
  IF max_items >= 0 THEN Min(max_items + 1, n) ELSE Max(n + max_items + 1, 0)

\* the 0-based start of the slice items[max_items:] of a list of n items
SliceStart(n, max_items) ==
  IF max_items >= 0 THEN Min(max_items, n) ELSE Max(n + max_items, 0)

\* the indices (among the children) of the items the trim step removes
TrimRemoved(children, max_items) ==
  LET items == IndicesOfTag(children, "item", 1)
      n == Len(items)
  IN  IF n > max_items
      THEN {items[k] : k \in (SliceStart(n, max_items) + 1)..n}
      ELSE {}

\* the channel's children after the trim step
Trim(children, max_items) ==
  LET removed == TrimRemoved(children, max_items)
      RECURSIVE Keep(_)
      Keep(i) == IF i > Len(children) THEN <<>>
                 ELSE (IF i \in removed THEN <<>> ELSE <<children[i]>>)
                      \o Keep(i + 1)
  IN  Keep(1)

NoChannelDiagnostic == "Error: Invalid appcast format - no channel element"
Traceback == "Traceback (most recent call last)"
AlreadyExists == "already exists in appcast, updating..."
Updated == "Updated appcast at"

\* One run of update_appcast on the feed file f at the instant now.
\* io is what the file system does when the file is opened and written;
\* escapes tells whether the runtime's minidom escapes attribute whitespace.
\* The result is the state the run leaves: the file, whether the parent
\* directory exists, how the run ended, what it printed, and the channel's
\* children as they were in memory after insertion and after the trim.
update_appcast(f, dir, a, now, io, escapes) ==
  LET parsed == parse_appcast(f)
      root == parsed.root
      ci == Find(root, "channel")
      before == root.children[ci].children
      removed == RemoveExisting(before, a.version)
      new_item == create_item(a.version, a.signature, a.url, a.length,
                              a.min_system_version, a.release_notes, now)
      inserted == InsertAt(removed, InsertPos(removed), new_item)
      trimmed == Trim(inserted, a.max_items)
      new_root == [root EXCEPT !.children[ci].children = trimmed]
      pretty == prettify_xml(new_root, escapes)
      out == IF removed # before THEN <<AlreadyExists>> ELSE <<>>
      Failed(how, file, dirAfter, err, stdout, ins, chan) ==
        [file |-> file, dirExists |-> dirAfter,
         outcome |-> how, exitStatus |-> 1, stderr |-> err, stdout |-> stdout,
         inserted |-> ins, channel |-> chan]
  IN  IF ~parsed.ok
      THEN Failed("ParseError", f, dir, Traceback, <<>>, <<>>, <<>>)
      ELSE IF ci = 0
      THEN Failed("SystemExit", f, dir, NoChannelDiagnostic, <<>>, <<>>, <<>>)
      ELSE IF io = "open_error"
      THEN Failed("OSError", f, TRUE, Traceback, out, inserted, trimmed)
      ELSE IF ~pretty.ok
      THEN Failed("ExpatError", EmptyFile, TRUE, Traceback, out, inserted, trimmed)
      ELSE IF io = "write_error"
      THEN Failed("OSError", PartialFile, TRUE, Traceback, out, inserted, trimmed)
      ELSE [file |-> XmlFile(pretty.text), dirExists |-> TRUE,
            outcome |-> "ok", exitStatus |-> 0, stderr |-> "",
            stdout |-> out \o <<Updated>>,
            inserted |-> inserted, channel |-> trimmed]

\* ------------------------------------------------------------------------
\* Inputs
\* ------------------------------------------------------------------------
\* --max-items when the flag is not given
DefaultMaxItems == 10

V100 == <<"1", ".", "0", ".", "0">>
V110 == <<"1", ".", "1", ".", "0">>
\* version strings with whitespace: a tab, and the space it is read back as
VTab == <<"1", "\t", "0">>
VSpace == <<"1", " ", "0">>

SIG_A == <<"S", "I", "G", "_", "A">>
SIG_B == <<"S", "I", "G", "_", "B">>
\* a signature pasted with a control character in it
SIG_CTRL == <<"S", CtrlChar>>
URL_A == <<"h", "t", "t", "p", "s", ":", "/", "/", "x", "/", "a">>
URL_B == <<"h", "t", "t", "p", "s", ":", "/", "/", "x", "/", "b">>
NOTES_INLINE == <<"f", "i", "x", "\n", "\n", "n", "e", "w">>
NOTES_LINK == <<"h", "t", "t", "p", ":", "n">>

Args(version, signature, url, length, min_system_version, release_notes, max_items) ==
  [version |-> version, signature |-> signature, url |-> url,
   length |-> length, min_system_version |-> min_system_version,
   release_notes |-> release_notes, max_items |-> max_items]

\* what one release passes besides its version and the retention limit
PayloadA == [signature |-> SIG_A, url |-> URL_A, length |-> 1000,
             min_system_version |-> DefaultMinSystemVersion,
             release_notes |-> NoText]
PayloadB == [signature |-> SIG_B, url |-> URL_B, length |-> 2000,
             min_system_version |-> <<"1", "5">>,
             release_notes |-> NOTES_INLINE]
PayloadLink == [signature |-> SIG_B, url |-> URL_A, length |-> -1,
                min_system_version |-> DefaultMinSystemVersion,
                release_notes |-> NOTES_LINK]
PayloadCtrl == [signature |-> SIG_CTRL, url |-> URL_A, length |-> 1000,
                min_system_version |-> DefaultMinSystemVersion,
                release_notes |-> NoText]

ArgsOf(version, p, max_items) ==
  Args(version, p.signature, p.url, p.length, p.min_system_version,
       p.release_notes, max_items)

ArgSet(versions, payloads, limits) ==
  {ArgsOf(v, p, n) : v \in versions, p \in payloads, n \in limits}

\* an invocation: the command line and what the file system does
Runs(argset, ios) == {<<a, io>> : a \in argset, io \in ios}

\* A release pipeline that starts without a feed: plain versions with
\* every payload and a zero, a small or the default limit, and versions
\* with whitespace in them.
SeqRuns ==
  Runs(ArgSet({V100, V110}, {PayloadA, PayloadB},
              {0, MaxLimit, DefaultMaxItems})
       \cup ArgSet({VTab, VSpace}, {PayloadA}, {DefaultMaxItems}),
       {"ok"})

\* Edits of a feed that was there before: every limit, every kind of
\* release notes, a signature that cannot be serialized, and a file system
\* that fails.
AnyRuns ==
  Runs(ArgSet({V100, V110}, {PayloadA},
              ((0 - MaxNegative)..MaxLimit) \cup {DefaultMaxItems})
       \cup ArgSet({V100}, {PayloadB, PayloadLink, PayloadCtrl},
                   {DefaultMaxItems}),
       {"ok"})
  \cup Runs(ArgSet({V100}, {PayloadA}, {DefaultMaxItems}),
            {"open_error", "write_error"})

\* ------------------------------------------------------------------------
\* Feed files that can be there before the script runs
\* ------------------------------------------------------------------------
Rss(children) ==
  Element("rss", << <<"version", <<"2", ".", "0">> >> >>, NoText, children)
Channel(children) == Element("channel", <<>>, NoText, children)

OldItemA == create_item(V100, SIG_A, URL_A, 1000, DefaultMinSystemVersion, NoText, 0)
OldItemB == create_item(V110, SIG_B, URL_B, 2000, <<"1", "5">>, NOTES_LINK, 0)
\* a second item for 1.0.0, as a hand edit can leave
OldItemDup == create_item(V100, SIG_B, URL_B, 2000, DefaultMinSystemVersion, NoText, 0)
ItemNoEnclosure ==
  Element("item", <<>>, NoText, << TextElement("title", VersionPrefix \o V100) >>)
ItemNoVersion ==
  Element("item", <<>>, NoText,
          << Element("enclosure", << <<"url", URL_A>> >>, NoText, <<>>) >>)
MetaTitle == TextElement("title", TemplateTitle)
MetaLanguage == TextElement("language", TemplateLanguage)

\* items in a trailing block, newest first, as the script leaves them
TrailingFeed == Rss(<< Channel(<<MetaTitle, MetaLanguage, OldItemB, OldItemA>>) >>)
\* a metadata element between the items
InterleavedFeed == Rss(<< Channel(<<MetaTitle, OldItemA, MetaLanguage, OldItemB>>) >>)
\* two items for one version, an item without enclosure, an enclosure
\* without sparkle:version
DuplicateFeed ==
  Rss(<< Channel(<<MetaTitle, ItemNoEnclosure, OldItemA, OldItemDup, ItemNoVersion>>) >>)
ItemsOnlyFeed == Rss(<< Channel(<<OldItemB>>) >>)
EmptyChannelFeed == Rss(<< Channel(<<>>) >>)
\* a root without children, and one whose channel is not a direct child
NoChannelFeed == Rss(<<>>)
NestedChannelFeed ==
  Rss(<< Element("body", <<>>, NoText, << Channel(<<MetaTitle, OldItemA>>) >>) >>)

ExistingFiles ==
  {XmlFile(d) : d \in {create_appcast_template, TrailingFeed, InterleavedFeed,
                        DuplicateFeed, ItemsOnlyFeed, EmptyChannelFeed,
                        NoChannelFeed, NestedChannelFeed}}
  \cup {EmptyFile, GarbageFile}

\* ------------------------------------------------------------------------
\* State
\* ------------------------------------------------------------------------
VARIABLES
  file,            \* the feed file
  dirExists,       \* the feed file's parent directory exists
  minidomEscapes,  \* the runtime's minidom escapes attribute whitespace
  calls,           \* the arguments of the invocations so far, oldest first
  outcome,         \* how the last invocation ended ("none" before the first)
  exitStatus,      \* the last invocation's exit status
  stderr,          \* what the last invocation wrote to the error stream
  stdout,          \* what the last invocation printed
  inserted,        \* the channel's children in memory after channel.insert
  channel          \* the channel's children in memory after the trim

vars == <<file, dirExists, minidomEscapes, calls, outcome, exitStatus,
          stderr, stdout, inserted, channel>>

InitRun ==
  /\ minidomEscapes \in BOOLEAN
  /\ calls = <<>>
  /\ outcome = "none"
  /\ exitStatus = 0
  /\ stderr = ""
  /\ stdout = <<>>
  /\ inserted = <<>>
  /\ channel = <<>>

\* no feed file yet
Init ==
  /\ file = AbsentFile
  /\ dirExists \in BOOLEAN
  /\ InitRun

\* main: one invocation of the script, its command line and the file
\* system's behaviour drawn from runs
Main(runs, bound) ==
  /\ Len(calls) < bound
  /\ \E run \in runs :
     \E r \in {update_appcast(file, dirExists, run[1], Len(calls) + 1, run[2],
                               minidomEscapes)} :
           /\ file' = r.file
           /\ dirExists' = r.dirExists
           /\ outcome' = r.outcome
           /\ exitStatus' = r.exitStatus
           /\ stderr' = r.stderr
           /\ stdout' = r.stdout
           /\ inserted' = r.inserted
           /\ channel' = r.channel
           /\ calls' = Append(calls, run[1])
  /\ UNCHANGED minidomEscapes

Next == Main(SeqRuns, MaxCalls)

Spec == Init /\ [][Next]_vars

\* a feed file is there, in its directory
InitAny ==
  /\ file \in ExistingFiles
  /\ dirExists = TRUE
  /\ InitRun

NextAny == Main(AnyRuns, MaxEdits)

SpecAny == InitAny /\ [][NextAny]_vars

\* ------------------------------------------------------------------------
\* What the properties speak of
\* ------------------------------------------------------------------------
IsItem(c) == c.tag = "item"
IsMeta(c) == c.tag # "item"
Items(children) == SelectSeq(children, IsItem)
Metadata(children) == SelectSeq(children, IsMeta)

\* the feed file holds a document whose root has a direct channel child
HasDirectChannel(root) == \E i \in DOMAIN root.children : root.children[i].tag = "channel"
FeedReadable == file.kind = "xml" /\ HasDirectChannel(file.text)

\* the children of the stored feed's channel, as a reader parses them
FeedChildren ==
  LET root == ReadElement(file.text)
      ci == CHOOSE i \in DOMAIN root.children :
              /\ root.children[i].tag = "channel"
              /\ \A j \in 1..(i - 1) : root.children[j].tag # "channel"
  IN  root.children[ci].children
FeedItems == Items(FeedChildren)

NoValue == <<"<none>">>
\* the value of an attribute of the item's enclosure
EnclosureAttr(item, name) ==
  IF \E i \in DOMAIN item.children :
       item.children[i].tag = "enclosure" /\ HasAttr(item.children[i], name)
  THEN LET i == CHOOSE i \in DOMAIN item.children :
                  item.children[i].tag = "enclosure" /\ HasAttr(item.children[i], name)
       IN  Get(item.children[i], name)
  ELSE NoValue
VersionOf(item) == EnclosureAttr(item, SPARKLE_VERSION)
SignatureOf(item) == EnclosureAttr(item, SPARKLE_ED_SIGNATURE)
VersionsOf(items) == [i \in DOMAIN items |-> VersionOf(items[i])]

LastCall == calls[Len(calls)]
\* the item the last invocation created
NewItem ==
  create_item(LastCall.version, LastCall.signature, LastCall.url, LastCall.length,
              LastCall.min_system_version, LastCall.release_notes, Len(calls))
\* the last invocation reached the insertion
Inserted == inserted # <<>>

DistinctVersions ==
  \A i, j \in DOMAIN calls : i # j => calls[i].version # calls[j].version
SameLimit == \A i \in DOMAIN calls : calls[i].max_items = calls[1].max_items

\* ------------------------------------------------------------------------
\* C1  Retention bound
\* ------------------------------------------------------------------------
\* C1: after M successful invocations with pairwise distinct version strings
\* and one retention limit N, starting without a feed file, the feed holds
\* exactly min(M, N) items.
C1_RetentionBound ==
  (calls # <<>> /\ outcome = "ok" /\ DistinctVersions /\ SameLimit)
    => Len(FeedItems) = Min(Len(calls), calls[1].max_items)

\* ------------------------------------------------------------------------
\* C2  Uniqueness
\* ------------------------------------------------------------------------
\* C2: in every feed reached from an absent feed file no two items carry
\* the same sparkle:version string.
C2_Uniqueness ==
  FeedReadable =>
    \A i, j \in DOMAIN FeedItems :
      i # j => VersionOf(FeedItems[i]) # VersionOf(FeedItems[j])

\* ------------------------------------------------------------------------
\* C4  Idempotent replace
\* ------------------------------------------------------------------------
\* the items of the stored feed whose version is v
ItemsFor(v) ==
  LET Hit(c) == VersionOf(c) = v IN SelectSeq(FeedItems, Hit)

\* C4: after two successive invocations with the same version string v the
\* feed holds exactly one item for v, and that item is the one the second
\* invocation created: its title, date, release notes, enclosure and
\* minimum system version are the second invocation's.
C4_IdempotentReplace ==
  (Len(calls) >= 2 /\ outcome = "ok"
   /\ calls[Len(calls) - 1].version = LastCall.version
   /\ LastCall.max_items >= 1)
    => ItemsFor(LastCall.version) = <<NewItem>>

\* ------------------------------------------------------------------------
\* C8  The concrete scenario
\* ------------------------------------------------------------------------
\* the first k invocations were those of the scenario: 1.0.0 signed SIG_A,
\* then 1.1.0, then 1.0.0 signed SIG_B, all with retention 10
Scenario(k) ==
  /\ Len(calls) = k
  /\ calls[1].version = V100 /\ calls[1].signature = SIG_A
  /\ k >= 2 => calls[2].version = V110
  /\ k >= 3 => calls[3].version = V100 /\ calls[3].signature = SIG_B
  /\ \A i \in 1..k : calls[i].max_items = DefaultMaxItems

\* C8: starting without a feed, with retention 10, the invocations
\* (1.0.0, SIG_A), (1.1.0), (1.0.0, SIG_B) leave 1, 2 and 2 items; after the
\* second 1.1.0 is first and 1.0.0 second; after the third 1.0.0 is first,
\* signed SIG_B, 1.1.0 is second, and SIG_A signs no item for 1.0.0 (and no
\* item at all unless the 1.1.0 release was itself signed SIG_A).
C8_Scenario ==
  /\ Scenario(1) => Len(FeedItems) = 1 /\ VersionsOf(FeedItems) = <<V100>>
                    /\ SignatureOf(FeedItems[1]) = SIG_A
  /\ Scenario(2) => VersionsOf(FeedItems) = <<V110, V100>>
  /\ Scenario(3) =>
       /\ VersionsOf(FeedItems) = <<V100, V110>>
       /\ SignatureOf(FeedItems[1]) = SIG_B
       /\ calls[2].signature # SIG_A =>
            \A i \in DOMAIN FeedItems : SignatureOf(FeedItems[i]) # SIG_A

\* the scenario has run to its end, the 1.1.0 release signed SIG_B
C8_Witness == Scenario(3) /\ calls[2].signature = SIG_B /\ outcome = "ok"

\* ------------------------------------------------------------------------
\* C10  Newest first by insertion
\* ------------------------------------------------------------------------
\* the distinct versions submitted, by their latest submission, latest first
RECURSIVE Recent(_)
Recent(cs) ==
  IF cs = <<>> THEN <<>>
  ELSE LET v == cs[Len(cs)].version
           NotV(x) == x # v
       IN  <<v>> \o SelectSeq(Recent(SubSeq(cs, 1, Len(cs) - 1)), NotV)

\* the items stored before an invocation, none when there was no file
StoredItems == IF FeedReadable THEN FeedItems ELSE <<>>

\* C10: with one retention limit N >= 1 throughout, starting without a
\* feed, after every invocation the feed lists the (at most N) most
\* recently submitted distinct versions, latest submission first, and the
\* items behind the new one are the items stored before, without the one
\* for the submitted version and without the trimmed tail, unchanged and in
\* their order.
C10_NewestFirst ==
  [][(calls' # calls /\ SameLimit' /\ calls'[1].max_items >= 1)
       => LET n == calls'[1].max_items
              v == calls'[Len(calls')].version
              NotV(c) == VersionOf(c) # v
              kept == SelectSeq(StoredItems, NotV)
          IN  /\ VersionsOf(FeedItems') =
                   SubSeq(Recent(calls'), 1, Min(n, Len(Recent(calls'))))
              /\ Tail(FeedItems') = SubSeq(kept, 1, Len(FeedItems') - 1)]_vars

\* ------------------------------------------------------------------------
\* C3  Ordering
\* ------------------------------------------------------------------------
\* the new item is the channel's first item, in memory and in the file
NewItemFirst ==
  /\ Items(channel) # <<>>
  /\ Items(channel)[1] = NewItem
  /\ FeedReadable
  /\ FeedItems # <<>>
  /\ FeedItems[1] = ReadElement(WriteElement(NewItem, minidomEscapes))

\* C3 as stated: after every successful invocation the channel's first item
\* is the item of the submitted version.
C3_OrderingAnyLimit == outcome = "ok" => NewItemFirst

\* C3, amended: after every successful invocation with a retention limit of
\* at least 1 the channel's first item is the item the invocation created,
\* whether its version was new or replaced an entry.
C3_Ordering == (outcome = "ok" /\ LastCall.max_items >= 1) => NewItemFirst

\* an entry was replaced, and other items are behind the new one
C3_Witness ==
  /\ outcome = "ok"
  /\ LastCall.max_items >= 1
  /\ stdout = <<AlreadyExists, Updated>>
  /\ Len(Items(channel)) >= 2

\* ------------------------------------------------------------------------
\* C5  Metadata before items
\* ------------------------------------------------------------------------
\* C5: after any invocation on a feed that has a channel, every metadata
\* child of the channel precedes every item child, and the new item is the
\* first item (when the limit lets an item stay at all).
C5_MetadataBeforeItems ==
  Inserted =>
    /\ \A i, j \in DOMAIN channel :
         (IsMeta(channel[i]) /\ IsItem(channel[j])) => i < j
    /\ LastCall.max_items >= 1 => Items(channel)[1] = NewItem

\* ------------------------------------------------------------------------
\* C6  All-or-nothing write
\* ------------------------------------------------------------------------
\* C6: every invocation either succeeds and leaves a complete document in
\* the feed file, or fails and leaves the feed file as it was.
C6_AllOrNothing ==
  [][calls' # calls
       => \/ outcome' = "ok" /\ file'.kind = "xml"
          \/ outcome' # "ok" /\ file' = file]_vars

\* ------------------------------------------------------------------------
\* C7  Missing channel
\* ------------------------------------------------------------------------
\* C7: an invocation on a feed file that parses but whose root has no
\* direct channel child prints the diagnostic to the error stream and exits
\* with status 1, having removed or inserted no item, created no directory
\* and written nothing: the feed file is unchanged.
C7_MissingChannel ==
  [][(calls' # calls /\ file.kind = "xml" /\ ~HasDirectChannel(file.text))
       => /\ outcome' = "SystemExit"
          /\ exitStatus' = 1
          /\ stderr' = NoChannelDiagnostic
          /\ stdout' = <<>>
          /\ inserted' = <<>> /\ channel' = <<>>
          /\ dirExists' = dirExists
          /\ file' = file]_vars

\* the script has exited on a feed whose channel is not the root's child
C7_Witness == outcome = "SystemExit" /\ file = XmlFile(NestedChannelFeed)

\* ------------------------------------------------------------------------
\* C9  Trim
\* ------------------------------------------------------------------------
\* the number of items among the first i children after insertion
Rank(i) == Cardinality({j \in 1..i : IsItem(inserted[j])})

\* the children after insertion without the items behind the first n
RECURSIVE FirstItemsFrom(_, _)
FirstItemsFrom(n, i) ==
  IF i > Len(inserted) THEN <<>>
  ELSE (IF IsMeta(inserted[i]) \/ Rank(i) <= n THEN <<inserted[i]>> ELSE <<>>)
       \o FirstItemsFrom(n, i + 1)

Trimmed(n) ==
  IF Len(Items(inserted)) > n
  THEN Len(Items(channel)) = n /\ channel = FirstItemsFrom(n, 1)
  ELSE channel = inserted

\* C9 as stated: with any retention limit N, if the items after insertion
\* are more than N, exactly the first N stay; if not, none is removed.
C9_TrimAnyLimit == Inserted => Trimmed(LastCall.max_items)

\* C9, amended: with a retention limit N >= 0, if the items after insertion
\* are more than N, items are removed from the end only until exactly the
\* first N remain; if not, the trim removes no item.
C9_Trim == (Inserted /\ LastCall.max_items >= 0) => Trimmed(LastCall.max_items)

\* the trim has removed two items or more and left one or more
C9_Witness ==
  /\ Inserted
  /\ LastCall.max_items >= 1
  /\ Len(Items(inserted)) >= LastCall.max_items + 2
  /\ outcome = "ok"

====
